---------------------------- MODULE Spec2Model ----------------------------
(***************************************************************************)
(* Client-side caption pipeline of isl-app.                                *)
(*                                                                         *)
(* The repository holds two versions of static/script.js:                  *)
(*   - src/unnamed/part_000: the async/await orchestrator ("async"):       *)
(*     process -> (download-audio -> transcribe)? -> formalize ->          *)
(*     isl-extract, with postForm as request helper;                       *)
(*   - src/static/script.js: the promise-chained script ("legacy"):        *)
(*     process -> (download-audio -> transcribe)? -> download link, with   *)
(*     a global sessionId, a submit button and a beforeunload cleanup.     *)
(* Init chooses which script the page has loaded (variant).                *)
(*                                                                         *)
(* A JavaScript string is a sequence of atoms (short TLA+ strings);        *)
(* Undefined is the absent field.  Response bodies are JSON objects whose  *)
(* fields, when present, are strings.  One action is one synchronous       *)
(* stretch of a handler: from an event (submit, a settled fetch) to the    *)
(* next await or to the handler's end.                                     *)
(***************************************************************************)
EXTENDS Integers, Sequences, FiniteSets, TLC

VARIABLES
  variant,   \* "async" | "legacy" | "pure" : which script the page runs
  alive,     \* the page has not been discarded
  nruns,     \* number of form submissions that started a run
  runs,      \* run id -> the run's closure (locals), position and history
  ui,        \* the DOM the scripts write: panels, progress bar, link, grids
  page,      \* legacy script's globals: sessionId, listeners, cleanup calls
  last,      \* history: the handler step that produced this state
  arg,       \* input of the renderer and helper specifications
  out        \* what the request helper gave its caller (helper specification)

vars == <<variant, alive, nruns, runs, ui, page, last, arg, out>>

-----------------------------------------------------------------------------
(* Bounds *)

MaxRuns == 2

Runs == 1..MaxRuns

-----------------------------------------------------------------------------
(* JavaScript values *)

Undefined == <<"#undefined">>
Null == <<"#null">>

Truthy(v) == v # Undefined /\ v # Null /\ v # <<>>

\* String(v) as done by URLSearchParams.append, FormData.append and template
\* literals.
JsString(v) ==
  IF v = Undefined THEN <<"undefined">> ELSE IF v = Null THEN <<"null">> ELSE v

\* element.textContent = v: the attribute is a nullable DOMString, null and
\* undefined both give the empty text.
TextContent(v) == IF v \in {Undefined, Null} THEN <<>> ELSE v

\* a || b
OrElse(a, b) == IF Truthy(a) THEN a ELSE b

RECURSIVE TrimLeft(_)
TrimLeft(s) == IF s # <<>> /\ Head(s) = " " THEN TrimLeft(Tail(s)) ELSE s

RECURSIVE TrimRight(_)
TrimRight(s) ==
  IF s # <<>> /\ s[Len(s)] = " " THEN TrimRight(SubSeq(s, 1, Len(s) - 1)) ELSE s

\* String.prototype.trim
Trim(s) == TrimRight(TrimLeft(s))
-----------------------------------------------------------------------------
(* Paths and the download link *)

\* Atoms that, lower-cased, read "temp" (the regex is case-insensitive).
TempAtoms == {"temp", "TEMP"}

\* Atoms that end in ".srt", whatever the case.
SrtAtoms == {"out.srt", "x.SRT", ".srt"}

\* A line terminator: the "." of a regex without the s flag does not match it.
LineBreak == "\n"

\* filePath.replace(/\\/g, "/")
NormalizeSlashes(p) == [i \in 1..Len(p) |-> IF p[i] = "\\" THEN "/" ELSE p[i]]

\* Index of the first "/" of q at or after i; 0 when there is none.
RECURSIVE SlashFrom(_, _)
SlashFrom(q, i) ==
  IF i > Len(q) THEN 0 ELSE IF q[i] = "/" THEN i ELSE SlashFrom(q, i + 1)

\* Index of the last "/" of q among q[1..i]; 0 when there is none.
RECURSIVE LastSlash(_, _)
LastSlash(q, i) ==
  IF i = 0 THEN 0 ELSE IF q[i] = "/" THEN i ELSE LastSlash(q, i - 1)

\* encodeURIComponent, atom by atom: "/" "\" the blank and the line break
\* are escaped, the letters, digits and "." of the other atoms are kept.
EncodeAtom(a) ==
  CASE a = "/"   -> "%2F"
    [] a = "\\"  -> "%5C"
    [] a = "a b" -> "a%20b"
    [] a = LineBreak -> "%0A"
    [] OTHER     -> a

encodeURIComponent(s) == [i \in 1..Len(s) |-> EncodeAtom(s[i])]

\* Mutant: the match without the regex's i flag.
MatchTempPathCaseSensitive(q) ==
  LET j == SlashFrom(q, 3)
      session == SubSeq(q, 3, j - 1)
      rest == SubSeq(q, j + 1, Len(q))
  IN  IF /\ Len(q) >= 5
         /\ q[1] = "temp"
         /\ q[2] = "/"
         /\ j > 3
         /\ rest # <<>>
         /\ \A k \in 1..Len(rest) : rest[k] # LineBreak
         /\ rest[Len(rest)] \in {"out.srt", ".srt"}
         /\ (rest[Len(rest)] = ".srt" => Len(rest) >= 2)
      THEN <<session, rest>>
      ELSE <<>>

\* filePath.match(/^temp\/([^/]+)\/(.+\.srt)$/i) on a normalized path:
\* <<session, nameOnly>> on a match, <<>> on none.  q[1] is the root, the
\* session is what lies between the first and the second "/", nameOnly is
\* the rest (which may hold more "/" and no line break), at least one
\* character and ".srt".
MatchTempPath(q) ==
  LET j == SlashFrom(q, 3)
      session == SubSeq(q, 3, j - 1)
      rest == SubSeq(q, j + 1, Len(q))
  IN  IF /\ Len(q) >= 5
         /\ q[1] \in TempAtoms
         /\ q[2] = "/"
         /\ j > 3
         /\ rest # <<>>
         /\ \A k \in 1..Len(rest) : rest[k] # LineBreak
         /\ rest[Len(rest)] \in SrtAtoms
         /\ (rest[Len(rest)] = ".srt" => Len(rest) >= 2)
      THEN <<session, rest>>
      ELSE <<>>

-----------------------------------------------------------------------------
(* The DOM the scripts write *)

InitUI ==
  [ statusVisible  |-> FALSE, statusMsg |-> <<>>, width |-> 0,
    resultVisible  |-> FALSE, resultMsg |-> <<>>, resultClass |-> <<>>,
    linkVisible    |-> FALSE, linkHref |-> Undefined, linkText |-> <<>>,
    vocabVisible   |-> FALSE, vocabGrid |-> <<>>,
    affVisible     |-> FALSE, affTables |-> <<>>,
    submitDisabled |-> FALSE ]

Max(a, b) == IF a >= b THEN a ELSE b
Min(a, b) == IF a <= b THEN a ELSE b

NoProgress == -1000

\* Mutant: the width is set without clamping.
showStatusUnclamped(u, msg, progressPct) ==
  LET v == [u EXCEPT !.statusVisible = TRUE, !.statusMsg = OrElse(msg, <<>>)]
  IN  IF progressPct = NoProgress THEN v ELSE [v EXCEPT !.width = progressPct]

\* part_000: showStatus(msg, progressPct = null); NoProgress is the null.
showStatus(u, msg, progressPct) ==
  LET v == [u EXCEPT !.statusVisible = TRUE, !.statusMsg = OrElse(msg, <<>>)]
  IN  IF progressPct = NoProgress
      THEN v
      ELSE [v EXCEPT !.width = Max(0, Min(100, progressPct))]

hideStatus(u) ==
  [u EXCEPT !.statusVisible = FALSE, !.statusMsg = <<>>, !.width = 0]

showResult(u, msg) ==
  [u EXCEPT !.resultVisible = TRUE, !.resultMsg = OrElse(msg, <<>>)]

hideResult(u) ==
  [u EXCEPT !.resultVisible = FALSE, !.resultMsg = <<>>,
            !.linkVisible = FALSE, !.linkHref = Undefined]

DownloadText == <<"Download Subtitle File">>

\* Mutant: an unexpected file_path leaves the link as it was.
setDownloadKeepsStaleLink(u, resp) ==
  IF Truthy(resp.download_url)
  THEN [u EXCEPT !.linkHref = resp.download_url, !.linkText = DownloadText,
                 !.linkVisible = TRUE]
  ELSE LET m == MatchTempPath(NormalizeSlashes(OrElse(resp.file_path, <<>>)))
       IN  IF m = <<>>
           THEN u
           ELSE [u EXCEPT !.linkHref = <<"/download/">>
                                       \o encodeURIComponent(m[1]) \o <<"/">>
                                       \o encodeURIComponent(m[2]),
                          !.linkText = DownloadText,
                          !.linkVisible = TRUE]

setDownloadFromFilePath(u, resp) ==
  IF Truthy(resp.download_url)
  THEN [u EXCEPT !.linkHref = resp.download_url, !.linkText = DownloadText,
                 !.linkVisible = TRUE]
  ELSE LET filePath == NormalizeSlashes(OrElse(resp.file_path, <<>>))
           m == MatchTempPath(filePath)
       IN  IF m = <<>>
           THEN [u EXCEPT !.linkVisible = FALSE]
           ELSE [u EXCEPT !.linkHref = <<"/download/">>
                                       \o encodeURIComponent(m[1]) \o <<"/">>
                                       \o encodeURIComponent(m[2]),
                          !.linkText = DownloadText,
                          !.linkVisible = TRUE]

EmptyStateText == <<"No ISL words found in list.">>

\* One grid item: "w (n)" when counts holds a count for w, else "w".
VocabItem(w, counts) == IF w \in counts THEN <<w, " (n)">> ELSE <<w>>

\* part_000: renderISLVocab(matches, counts); counts is the set of the words
\* that have a (truthy) count.
renderISLVocab(u, matches, counts) ==
  IF ~Truthy(matches)
  THEN [u EXCEPT !.vocabVisible = TRUE, !.vocabGrid = <<EmptyStateText>>]
  ELSE [u EXCEPT !.vocabVisible = TRUE,
                 !.vocabGrid = [i \in 1..Len(matches) |->
                                  VocabItem(matches[i], counts)]]

\* Rows whose lemma is no string: escapeHtml(r.lemma) throws on them.
BadRows == <<"#bad-rows">>

\* part_000: renderAffectedTables(present, absent, affectedAll), the three
\* arguments taken together as one table content.  The container is shown
\* and the tables are cleared before any row is built, so a throw leaves
\* them shown and empty.
renderAffectedTables(u, rows) ==
  IF rows = BadRows
  THEN [threw |-> TRUE,  u |-> [u EXCEPT !.affVisible = TRUE, !.affTables = <<>>]]
  ELSE [threw |-> FALSE, u |-> [u EXCEPT !.affVisible = TRUE, !.affTables = rows]]

-----------------------------------------------------------------------------
(* The backend's answers *)

EmptyBody ==
  [ status |-> Undefined, message |-> Undefined, session_id |-> Undefined,
    file_path |-> Undefined, audio_path |-> Undefined,
    download_url |-> Undefined,
    unique_matches |-> Undefined, counts |-> {}, affected |-> Undefined ]

Sessions == {<<"s1">>, <<"s2">>}
Messages == {Undefined, <<"boom">>}

CaptionPath    == <<"temp", "/", "s1", "/", "out.srt">>
TranscriptPath == <<"temp", "/", "s1", "/", "x.SRT">>
AudioPath      == <<"temp", "/", "s1", "/", "audio.mp3">>
ServerUrl      == <<"https://cdn.example/f.srt">>

FormalPaths ==
  { Undefined,
    <<"TEMP", "\\", "a b", "\\", "x.SRT">>,
    <<"data", "/", "abc", "/", "out.srt">> }

\* A settled fetch: the request was rejected (net = "reject"), the body was
\* no JSON (net = "badjson"), or a JSON body came with an HTTP code.
Failures ==
  { [net |-> n, code |-> "0", body |-> EmptyBody] : n \in {"reject", "badjson"} }

Http(code, bodies) == { [net |-> "ok", code |-> code, body |-> b] : b \in bodies }

\* An error answer: status "error" with or without a message.
ErrorBodies ==
  { [EmptyBody EXCEPT !.status = <<"error">>, !.message = m] : m \in Messages }

ProcessAnswers ==
  Failures
  \cup Http("500", ErrorBodies)
  \cup Http("500", { [EmptyBody EXCEPT !.status = <<"info">>,
                                       !.session_id = <<"s1">>] })
  \cup Http("200", ErrorBodies)
  \cup Http("200", { [EmptyBody EXCEPT !.message = m] : m \in Messages })
  \cup Http("200",
        { [EmptyBody EXCEPT !.status = st, !.message = <<"note">>,
                            !.session_id = sid, !.file_path = fp] :
            st \in {<<"success">>, <<"info">>},
            sid \in Sessions \cup {Undefined},
            fp \in {Undefined, CaptionPath} })

DownloadAnswers ==
  Failures
  \cup Http("500", ErrorBodies)
  \cup Http("200", { [EmptyBody EXCEPT !.status = <<"error">>,
                                       !.message = <<"boom">>] })
  \cup Http("200",
        { [EmptyBody EXCEPT !.status = <<"success">>, !.message = <<"note">>,
                            !.audio_path = ap] :
            ap \in {Undefined, AudioPath} })

TranscribeAnswers ==
  Failures
  \cup Http("500", ErrorBodies)
  \cup Http("200", { [EmptyBody EXCEPT !.status = <<"error">>,
                                       !.message = <<"boom">>] })
  \cup Http("200",
        { [EmptyBody EXCEPT !.status = <<"success">>, !.message = <<"note">>,
                            !.file_path = fp] :
            fp \in {Undefined, TranscriptPath} })

FormalizeAnswers ==
  Failures
  \cup Http("500", ErrorBodies)
  \cup Http("200",
        { [EmptyBody EXCEPT !.status = <<"success">>, !.session_id = sid,
                            !.file_path = fp, !.download_url = du] :
            sid \in Sessions, fp \in FormalPaths,
            du \in {Undefined, ServerUrl} })

ExtractAnswers ==
  Failures
  \cup Http("500", ErrorBodies)
  \cup Http("200",
        { [EmptyBody EXCEPT !.status = <<"success">>, !.unique_matches = um,
                            !.counts = {"hello"}, !.affected = af] :
            um \in {Undefined, <<"hello", "book">>},
            af \in {Undefined, <<"rows">>, BadRows} })

HttpOk(resp) == resp.code = "200"

\* What the caller of a request helper gets: the parsed body, or a throw.
NetMessage(n) ==
  IF n = "reject" THEN <<"Failed to fetch">> ELSE <<"Unexpected token">>

\* No helper has returned or thrown yet.
NoOutcome == [threw |-> FALSE, message |-> <<>>, json |-> EmptyBody]

\* Mutant: the body's message is not looked at.
postFormGenericMessage(resp) ==
  IF resp.net # "ok"
  THEN [threw |-> TRUE, message |-> NetMessage(resp.net), json |-> EmptyBody]
  ELSE IF ~HttpOk(resp)
       THEN [threw |-> TRUE, message |-> <<"HTTP ", resp.code>>,
             json |-> EmptyBody]
       ELSE [threw |-> FALSE, message |-> <<>>, json |-> resp.body]

\* part_000: postForm's outcome on a settled fetch.
postForm(resp) ==
  IF resp.net # "ok"
  THEN [threw |-> TRUE, message |-> NetMessage(resp.net), json |-> EmptyBody]
  ELSE IF ~HttpOk(resp)
       THEN [threw |-> TRUE,
             message |-> IF Truthy(resp.body.message) THEN resp.body.message
                         ELSE <<"HTTP ", resp.code>>,
             json |-> EmptyBody]
       ELSE [threw |-> FALSE, message |-> <<>>, json |-> resp.body]

\* part_000: extractISL's outcome on a settled fetch.
extractISL(resp) ==
  IF resp.net # "ok"
  THEN [threw |-> TRUE, message |-> NetMessage(resp.net), json |-> EmptyBody]
  ELSE IF ~HttpOk(resp)
       THEN [threw |-> TRUE,
             message |-> OrElse(resp.body.message, <<"HTTP ", resp.code>>),
             json |-> EmptyBody]
       ELSE [threw |-> FALSE, message |-> <<>>, json |-> resp.body]

-----------------------------------------------------------------------------
(* Runs *)

\* What the user may have typed into the URL field.
UrlSamples == { <<>>, <<" ">>, <<" ", " ">>, <<"u">>, <<" ", "u", " ">> }

NoResponse ==
  [session_id |-> Undefined, file_path |-> Undefined, download_url |-> Undefined]

\* A request: its endpoint and form fields (Undefined: field not sent).
Request(ep, url, sid, audio, file) ==
  [ep |-> ep, url |-> url, session_id |-> sid, audio_path |-> audio,
   file_path |-> file]

NoRequest == Request("none", Undefined, Undefined, Undefined, Undefined)

ProcessRequest(url) ==
  Request("process", url, Undefined, Undefined, Undefined)

DownloadRequest(url, sessionId) ==
  Request("download-audio", url, JsString(sessionId), Undefined, Undefined)

\* Mutant: the session id is sent as the audio path.
TranscribeRequestWrongPath(audioPath, sessionId) ==
  Request("transcribe", Undefined, JsString(sessionId), JsString(sessionId),
          Undefined)

TranscribeRequest(audioPath, sessionId) ==
  Request("transcribe", Undefined, JsString(sessionId), JsString(audioPath),
          Undefined)

FormalizeRequest(sessionId, srtPath) ==
  Request("formalize", Undefined, JsString(sessionId), Undefined,
          JsString(srtPath))

\* Mutant: the file path is never appended to the body.
ExtractRequestNoFile(sessionId, filePath) ==
  Request("isl-extract", Undefined, JsString(sessionId), Undefined, Undefined)

\* extractISL(sessionId, filePath): file_path is sent only when truthy.
ExtractRequest(sessionId, filePath) ==
  Request("isl-extract", Undefined, JsString(sessionId), Undefined,
          IF Truthy(filePath) THEN filePath ELSE Undefined)

\* A run's closure: pc is the await it is suspended at ("done", "error" and
\* "stalled" are ends), url/sessionId/srtPath/f are the handler's locals.
\* History, written by no handler and read by none: eps, the endpoints
\* requested so far in order; req, the latest request; oks, whether each
\* settled request succeeded; ret, the path the latest settled request
\* brought; proc, what the process answer asked for; psid, the session id
\* the process answer brought.
NoRun ==
  [ pc |-> "idle", url |-> <<>>, sessionId |-> Undefined,
    srtPath |-> Undefined, f |-> NoResponse, eps |-> <<>>, oks |-> <<>>,
    req |-> NoRequest, ret |-> Undefined, proc |-> "none",
    psid |-> Undefined ]

\* A request succeeded: for the async orchestrator a JSON body with a 2xx
\* code (postForm returns), for the promise-chained script, which never
\* reads the code, a JSON body whose status is not "error".
Succeeded(resp) ==
  /\ resp.net = "ok"
  /\ IF variant = "async" THEN HttpOk(resp)
                          ELSE resp.body.status # <<"error">>

\* What a process answer asks the client to do.
ProcKind(resp) ==
  IF ~Succeeded(resp) THEN "failed"
  ELSE IF resp.body.status = <<"success">> /\ Truthy(resp.body.file_path)
  THEN "captions"
  ELSE IF resp.body.status = <<"info">> THEN "info"
  ELSE "other"

\* How a fetch settled, as the backend and the network decided it.
AnswerKind(resp) ==
  IF resp.net # "ok" THEN resp.net
  ELSE IF ~HttpOk(resp) THEN "http-error"
  ELSE IF resp.body.affected = BadRows THEN "unrenderable"
  ELSE "ok"

Issue(run, pc, req) ==
  [run EXCEPT !.pc = pc, !.eps = Append(@, req.ep), !.req = req]

Settle(run, resp, val) ==
  [run EXCEPT !.oks = Append(@, Succeeded(resp)),
              !.ret = IF Succeeded(resp) THEN val ELSE Undefined,
              !.proc = IF run.pc = "process" THEN ProcKind(resp) ELSE @,
              !.psid = IF run.pc = "process" /\ Succeeded(resp)
                       THEN resp.body.session_id ELSE @]

\* The handler (or promise chain) has ended at pc: its closure is gone, the
\* history of what it requested stays.
End(run, pc) ==
  [NoRun EXCEPT !.pc = pc, !.eps = run.eps, !.oks = run.oks,
                !.proc = run.proc]

\* url, sessionId and srtPath are read for the last time when the formalize
\* request is built; once it has settled the closure keeps only f.
Forget(run) ==
  [run EXCEPT !.url = <<>>, !.sessionId = Undefined, !.srtPath = Undefined,
              !.psid = Undefined]

InFlightPcs == {"process", "download", "transcribe", "formalize", "extract"}
EndPcs == {"done", "error", "stalled"}

\* History: the handler step that led to the state; how and said tell how
\* the fetch had settled (said: the body's status was "error"), input is
\* what a submission found in the URL field.
Event(ev, r, how, said, input) ==
  [ev |-> ev, run |-> r, how |-> how, said |-> said, input |-> input]

Submitted(r, u) == Event("submit", r, "user", FALSE, u)

Settled(ev, r, resp) ==
  Event(ev, r, AnswerKind(resp),
        resp.net = "ok" /\ resp.body.status = <<"error">>, <<>>)

-----------------------------------------------------------------------------
(* part_000: the async orchestrator *)

CheckingText    == <<"Checking captions...">>
PasteText       == <<"Please paste a YouTube URL.">>
DownloadingText == <<"Downloading audio...">>
TranscribingText == <<"Transcribing audio...">>
FormattingText  == <<"Formatting for written English...">>
UnexpectedText  == <<"Unexpected response.">>
ReadyText       == <<"Ready! This is the formal written-English version.">>

\* Mutant: the catch shows the error and leaves the status panel.
CatchErrorKeepsStatus(u, message) == showResult(u, <<"Error: ">> \o message)

\* The outer catch: hideStatus(); showResult(`Error: ${err.message}`).
CatchError(u, message) == showResult(hideStatus(u), <<"Error: ">> \o message)

\* Mutant: the validation message is shown and the status panel stays.
RejectEmptyKeepsStatus(u) == showResult(u, PasteText)

\* if (!url) { showResult("Please paste a YouTube URL."); hideStatus(); }
RejectEmpty(u) == hideStatus(showResult(u, PasteText))

\* Mutant: the status is compared with the wrong literal.
HasCaptionsWrongLiteral(p) == p.status = <<"ok">> /\ Truthy(p.file_path)

\* p.status === "success" && srtPath
HasCaptions(p) == p.status = <<"success">> /\ Truthy(p.file_path)

\* p.status === "info"
NeedsAudio(p) == p.status = <<"info">>

\* The submit handler up to its first await.
Submit(u) ==
  /\ variant = "async"
  /\ alive
  /\ LET url == Trim(u)
         shown == showStatus(hideResult(ui), CheckingText, 10)
     IN  IF ~Truthy(url)
         THEN /\ ui' = RejectEmpty(shown)
              /\ last' = Submitted(0, u)
              /\ UNCHANGED <<nruns, runs>>
         ELSE /\ nruns < MaxRuns
              /\ nruns' = nruns + 1
              /\ runs' = [runs EXCEPT ![nruns + 1] =
                            Issue([NoRun EXCEPT !.url = url], "process",
                                  ProcessRequest(url))]
              /\ ui' = shown
              /\ last' = Submitted(nruns + 1, u)
  /\ UNCHANGED <<out, variant, alive, page, arg>>

\* const p = await postForm("/process", { url }) settles.
ProcessSettled(r, resp) ==
  /\ variant = "async"
  /\ alive
  /\ runs[r].pc = "process"
  /\ LET p == postForm(resp)
         run == Settle(runs[r], resp, p.json.file_path)
         sessionId == p.json.session_id
         srtPath == p.json.file_path
         loc == [run EXCEPT !.sessionId = sessionId, !.srtPath = srtPath]
     IN  IF p.threw
         THEN /\ runs' = [runs EXCEPT ![r] = End(run, "error")]
              /\ ui' = CatchError(ui, p.message)
         ELSE IF HasCaptions(p.json)
         THEN /\ runs' = [runs EXCEPT ![r] =
                            Issue(loc, "formalize",
                                  FormalizeRequest(sessionId, srtPath))]
              /\ ui' = showStatus(ui, FormattingText, 70)
         ELSE IF NeedsAudio(p.json)
         THEN /\ runs' = [runs EXCEPT ![r] =
                            Issue(loc, "download",
                                  DownloadRequest(run.url, sessionId))]
              /\ ui' = showStatus(ui, DownloadingText, 40)
         ELSE /\ runs' = [runs EXCEPT ![r] = End(loc, "error")]
              /\ ui' = showResult(hideStatus(ui),
                                  OrElse(p.json.message, UnexpectedText))
  /\ last' = Settled("process", r, resp)
  /\ UNCHANGED <<out, variant, alive, nruns, page, arg>>

\* const d = await postForm("/download-audio", ...) settles.
DownloadSettled(r, resp) ==
  /\ variant = "async"
  /\ alive
  /\ runs[r].pc = "download"
  /\ LET d == postForm(resp)
         run == Settle(runs[r], resp, d.json.audio_path)
     IN  IF d.threw
         THEN /\ runs' = [runs EXCEPT ![r] = End(run, "error")]
              /\ ui' = CatchError(ui, d.message)
         ELSE /\ runs' = [runs EXCEPT ![r] =
                            Issue(run, "transcribe",
                                  TranscribeRequest(d.json.audio_path,
                                                    run.sessionId))]
              /\ ui' = showStatus(ui, TranscribingText, 60)
  /\ last' = Settled("download", r, resp)
  /\ UNCHANGED <<out, variant, alive, nruns, page, arg>>

\* const t = await postForm("/transcribe", ...) settles.
TranscribeSettled(r, resp) ==
  /\ variant = "async"
  /\ alive
  /\ runs[r].pc = "transcribe"
  /\ LET t == postForm(resp)
         run == Settle(runs[r], resp, t.json.file_path)
         srtPath == t.json.file_path
     IN  IF t.threw
         THEN /\ runs' = [runs EXCEPT ![r] = End(run, "error")]
              /\ ui' = CatchError(ui, t.message)
         ELSE /\ runs' = [runs EXCEPT ![r] =
                            Issue([run EXCEPT !.srtPath = srtPath],
                                  "formalize",
                                  FormalizeRequest(run.sessionId, srtPath))]
              /\ ui' = showStatus(ui, FormattingText, 80)
  /\ last' = Settled("transcribe", r, resp)
  /\ UNCHANGED <<out, variant, alive, nruns, page, arg>>

\* const f = await postForm("/formalize", ...) settles, and
\* extractISL(f.session_id, f.file_path) is called.
FormalizeSettled(r, resp) ==
  /\ variant = "async"
  /\ alive
  /\ runs[r].pc = "formalize"
  /\ LET f == postForm(resp)
         run == Settle(runs[r], resp, f.json.file_path)
     IN  IF f.threw
         THEN /\ runs' = [runs EXCEPT ![r] = End(run, "error")]
              /\ ui' = CatchError(ui, f.message)
         ELSE /\ runs' = [runs EXCEPT ![r] =
                            Issue([Forget(run) EXCEPT !.f =
                                     [session_id |-> f.json.session_id,
                                      file_path |-> f.json.file_path,
                                      download_url |-> f.json.download_url]],
                                  "extract",
                                  ExtractRequest(f.json.session_id,
                                                 f.json.file_path))]
              /\ ui' = ui
  /\ last' = Settled("formalize", r, resp)
  /\ UNCHANGED <<out, variant, alive, nruns, page, arg>>

\* Mutant: a throw of the table renderer leaves the grid it had rendered.
ExtractionStepNoFallback(u, ex) ==
  IF ex.threw
  THEN renderISLVocab(u, <<>>, {})
  ELSE renderAffectedTables(
         renderISLVocab(u, ex.json.unique_matches, ex.json.counts),
         OrElse(ex.json.affected, <<>>)).u

\* The inner try/catch around extractISL and the two renderers.
ExtractionStep(u, ex) ==
  IF ex.threw
  THEN renderISLVocab(u, <<>>, {})
  ELSE LET grid == renderISLVocab(u, ex.json.unique_matches, ex.json.counts)
           tabs == renderAffectedTables(grid, OrElse(ex.json.affected, <<>>))
       IN  IF tabs.threw
           THEN renderISLVocab(tabs.u, <<>>, {})
           ELSE tabs.u

\* The end of the handler: hideStatus(); showResult("Ready! ...");
\* setDownloadFromFilePath(f).
Finish(u, f) == setDownloadFromFilePath(showResult(hideStatus(u), ReadyText), f)

\* const ex = await extractISL(...) settles; the handler runs to its end.
ExtractSettled(r, resp) ==
  /\ variant = "async"
  /\ alive
  /\ runs[r].pc = "extract"
  /\ LET ex == extractISL(resp)
         run == Settle(runs[r], resp, Undefined)
     IN  /\ runs' = [runs EXCEPT ![r] = End(run, "done")]
         /\ ui' = Finish(ExtractionStep(ui, ex), run.f)
  /\ last' = Settled("extract", r, resp)
  /\ UNCHANGED <<out, variant, alive, nruns, page, arg>>

-----------------------------------------------------------------------------
(* static/script.js: the promise-chained script *)

EnterUrlText   == <<"Please enter a YouTube URL">>
CheckingManualText == <<"Checking for manual captions...">>
CaptionsReadyText == <<"Captions ready for download!">>
TypeErrorText  == <<"Cannot read properties of undefined (reading 'replace')">>

InitPage == [sessionId |-> Null, listeners |-> 0, cleanups |-> <<>>]

showError(u, message) ==
  [u EXCEPT !.statusVisible = FALSE, !.resultVisible = TRUE,
            !.resultMsg = TextContent(message), !.resultClass = <<"error">>,
            !.linkVisible = FALSE, !.submitDisabled = FALSE]

resetUI(u) ==
  [u EXCEPT !.statusVisible = FALSE, !.resultVisible = FALSE,
            !.linkVisible = FALSE, !.width = 0]

\* normalized.split('/').pop()
FileName(filePath) ==
  LET q == NormalizeSlashes(filePath)
  IN  SubSeq(q, LastSlash(q, Len(q)) + 1, Len(q))

\* showDownloadLink(filePath) for a string filePath, sessionId being the
\* script's global; the beforeunload listener it adds is counted by the
\* callers.
showDownloadLink(u, sessionId, filePath) ==
  [u EXCEPT !.resultVisible = TRUE, !.resultMsg = CaptionsReadyText,
            !.resultClass = <<"success">>,
            !.linkHref = <<"/download/">> \o JsString(sessionId) \o <<"/">>
                         \o encodeURIComponent(FileName(filePath)),
            !.linkText = <<"Download ">> \o FileName(filePath),
            !.linkVisible = TRUE]

\* What a .then(data => ...) handler and the .catch behind it see of a
\* settled fetch: the script never reads response.ok.
Parsed(resp) ==
  IF resp.net # "ok"
  THEN [threw |-> TRUE, message |-> NetMessage(resp.net), json |-> EmptyBody]
  ELSE [threw |-> FALSE, message |-> <<>>, json |-> resp.body]

\* The submit listener, up to the fetch in processVideo.
StartLegacy(u) ==
  [resetUI(u) EXCEPT !.statusVisible = TRUE, !.statusMsg = CheckingManualText,
                     !.width = 10, !.submitDisabled = TRUE]

\* The submit listener.  A form whose submit button is disabled is not
\* submitted by the user (neither by a click nor by Enter in the field).
SubmitLegacy(u) ==
  /\ variant = "legacy"
  /\ alive
  /\ ~ui.submitDisabled
  /\ LET youtubeUrl == Trim(u)
     IN  IF ~Truthy(youtubeUrl)
         THEN /\ ui' = showError(ui, EnterUrlText)
              /\ last' = Submitted(0, u)
              /\ UNCHANGED <<nruns, runs>>
         ELSE /\ nruns < MaxRuns
              /\ nruns' = nruns + 1
              /\ runs' = [runs EXCEPT ![nruns + 1] =
                            Issue([NoRun EXCEPT !.url = youtubeUrl], "process",
                                  ProcessRequest(youtubeUrl))]
              /\ ui' = StartLegacy(ui)
              /\ last' = Submitted(nruns + 1, u)
  /\ UNCHANGED <<out, variant, alive, page, arg>>

\* showDownloadLink called from a .then handler: a filePath that is no
\* string throws at filePath.replace and lands in the chain's .catch.
LinkOrCatch(u, sessionId, filePath) ==
  IF filePath \in {Undefined, Null}
  THEN [threw |-> TRUE, u |-> showError(u, <<"Error: ">> \o TypeErrorText)]
  ELSE [threw |-> FALSE, u |-> showDownloadLink(u, sessionId, filePath)]

\* progressBar.style.width = w; statusMessage.textContent = data.message
Progress(u, w, message) ==
  [u EXCEPT !.width = w, !.statusMsg = TextContent(message)]

\* processVideo's fetch settles.
ProcessSettledLegacy(r, resp) ==
  /\ variant = "legacy"
  /\ alive
  /\ runs[r].pc = "process"
  /\ LET d == Parsed(resp)
         data == d.json
         run == Settle(runs[r], resp, data.file_path)
         link == LinkOrCatch(Progress(ui, 100, data.message),
                             data.session_id, data.file_path)
     IN  IF d.threw
         THEN /\ runs' = [runs EXCEPT ![r] = End(run, "error")]
              /\ ui' = showError(ui, <<"Error: ">> \o d.message)
              /\ page' = page
         ELSE IF data.status = <<"error">>
         THEN /\ runs' = [runs EXCEPT ![r] = End(run, "error")]
              /\ ui' = showError(ui, data.message)
              /\ page' = page
         ELSE IF data.status = <<"success">>
         THEN /\ runs' = [runs EXCEPT ![r] =
                            End(run, IF link.threw THEN "error" ELSE "done")]
              /\ ui' = link.u
              /\ page' = [page EXCEPT !.sessionId = data.session_id,
                                      !.listeners = IF link.threw THEN @
                                                    ELSE @ + 1]
         ELSE IF data.status = <<"info">>
         THEN /\ runs' = [runs EXCEPT ![r] =
                            Issue([run EXCEPT !.sessionId = data.session_id],
                                  "download",
                                  DownloadRequest(run.url, data.session_id))]
              /\ ui' = Progress(ui, 30, data.message)
              /\ page' = [page EXCEPT !.sessionId = data.session_id]
         ELSE /\ runs' = [runs EXCEPT ![r] = End(run, "stalled")]
              /\ ui' = ui
              /\ page' = [page EXCEPT !.sessionId = data.session_id]
  /\ last' = Settled("process", r, resp)
  /\ UNCHANGED <<out, variant, alive, nruns, arg>>

\* downloadAudio's fetch settles.
DownloadSettledLegacy(r, resp) ==
  /\ variant = "legacy"
  /\ alive
  /\ runs[r].pc = "download"
  /\ LET d == Parsed(resp)
         data == d.json
         run == Settle(runs[r], resp, data.audio_path)
     IN  IF d.threw
         THEN /\ runs' = [runs EXCEPT ![r] = End(run, "error")]
              /\ ui' = showError(ui, <<"Error: ">> \o d.message)
         ELSE IF data.status = <<"error">>
         THEN /\ runs' = [runs EXCEPT ![r] = End(run, "error")]
              /\ ui' = showError(ui, data.message)
         ELSE /\ runs' = [runs EXCEPT ![r] =
                            Issue(run, "transcribe",
                                  TranscribeRequest(data.audio_path,
                                                    run.sessionId))]
              /\ ui' = Progress(ui, 60, data.message)
  /\ last' = Settled("download", r, resp)
  /\ UNCHANGED <<out, variant, alive, nruns, page, arg>>

\* transcribeAudio's fetch settles.
TranscribeSettledLegacy(r, resp) ==
  /\ variant = "legacy"
  /\ alive
  /\ runs[r].pc = "transcribe"
  /\ LET d == Parsed(resp)
         data == d.json
         run == Settle(runs[r], resp, data.file_path)
         link == LinkOrCatch(Progress(ui, 100, data.message),
                             page.sessionId, data.file_path)
     IN  IF d.threw
         THEN /\ runs' = [runs EXCEPT ![r] = End(run, "error")]
              /\ ui' = showError(ui, <<"Error: ">> \o d.message)
              /\ page' = page
         ELSE IF data.status = <<"error">>
         THEN /\ runs' = [runs EXCEPT ![r] = End(run, "error")]
              /\ ui' = showError(ui, data.message)
              /\ page' = page
         ELSE /\ runs' = [runs EXCEPT ![r] =
                            End(run, IF link.threw THEN "error" ELSE "done")]
              /\ ui' = link.u
              /\ page' = [page EXCEPT !.listeners = IF link.threw THEN @
                                                    ELSE @ + 1]
  /\ last' = Settled("transcribe", r, resp)
  /\ UNCHANGED <<out, variant, alive, nruns, arg>>

\* cleanupFiles(), once per registered beforeunload listener.
RECURSIVE Cleanups(_, _)
Cleanups(sessionId, n) ==
  IF n = 0 \/ ~Truthy(sessionId) THEN <<>>
  ELSE <<sessionId>> \o Cleanups(sessionId, n - 1)

\* The page is discarded: every beforeunload listener runs.
Unload ==
  /\ variant \in {"async", "legacy"}
  /\ alive
  /\ alive' = FALSE
  /\ page' = [page EXCEPT !.cleanups = @ \o Cleanups(page.sessionId,
                                                     page.listeners)]
  /\ last' = Event("unload", 0, "user", FALSE, <<>>)
  /\ UNCHANGED <<out, variant, nruns, runs, ui, arg>>

-----------------------------------------------------------------------------
(* The page *)

Init ==
  /\ variant \in {"async", "legacy"}
  /\ alive = TRUE
  /\ nruns = 0
  /\ runs = [r \in Runs |-> NoRun]
  /\ ui = InitUI
  /\ page = InitPage
  /\ last = Event("load", 0, "user", FALSE, <<>>)
  /\ arg = <<>>
  /\ out = NoOutcome

Next ==
  \/ \E u \in UrlSamples : Submit(u)
  \/ \E r \in Runs, resp \in ProcessAnswers : ProcessSettled(r, resp)
  \/ \E r \in Runs, resp \in DownloadAnswers : DownloadSettled(r, resp)
  \/ \E r \in Runs, resp \in TranscribeAnswers : TranscribeSettled(r, resp)
  \/ \E r \in Runs, resp \in FormalizeAnswers : FormalizeSettled(r, resp)
  \/ \E r \in Runs, resp \in ExtractAnswers : ExtractSettled(r, resp)
  \/ \E u \in UrlSamples : SubmitLegacy(u)
  \/ \E r \in Runs, resp \in ProcessAnswers : ProcessSettledLegacy(r, resp)
  \/ \E r \in Runs, resp \in DownloadAnswers : DownloadSettledLegacy(r, resp)
  \/ \E r \in Runs, resp \in TranscribeAnswers : TranscribeSettledLegacy(r, resp)
  \/ Unload

Spec == Init /\ [][Next]_vars

-----------------------------------------------------------------------------
(* The renderers on their own: setDownloadFromFilePath and showStatus are   *)
(* applied once to an input drawn by Init.                                  *)

MaxPathLen == 5
ProgressMargin == 10

PathAtoms == {"TEMP", "a b", "x.SRT", ".srt", "/", "\\", LineBreak}

PathSamples == UNION { [1..n -> PathAtoms] : n \in 0..MaxPathLen }

\* A link left visible by an earlier run.
StaleLinkUI ==
  [InitUI EXCEPT !.linkVisible = TRUE, !.linkHref = ServerUrl,
                 !.linkText = DownloadText]

PureInit(v, inputs, uis) ==
  /\ variant = v
  /\ arg \in inputs
  /\ ui \in uis
  /\ alive = TRUE
  /\ nruns = 0
  /\ runs = [r \in Runs |-> NoRun]
  /\ page = InitPage
  /\ last = Event("load", 0, "user", FALSE, <<>>)
  /\ out = NoOutcome

LinkInit ==
  PureInit("resolver",
           [download_url : {Undefined, <<>>, ServerUrl},
            file_path : PathSamples \cup {Undefined}],
           {InitUI, StaleLinkUI})

\* setDownloadFromFilePath(arg)
Resolve ==
  /\ variant = "resolver"
  /\ last.ev = "load"
  /\ ui' = setDownloadFromFilePath(ui, arg)
  /\ last' = Event("resolve", 0, "user", FALSE, <<>>)
  /\ UNCHANGED <<out, variant, alive, nruns, runs, page, arg>>

SpecLink == LinkInit /\ [][Resolve]_vars

StatusInit ==
  PureInit("status",
           (0 - ProgressMargin)..(100 + ProgressMargin) \cup {NoProgress},
           {InitUI, [InitUI EXCEPT !.statusVisible = TRUE, !.width = 40],
            [InitUI EXCEPT !.statusVisible = TRUE, !.width = 100]})

\* showStatus("Checking captions...", arg)
ShowStatus ==
  /\ variant = "status"
  /\ last.ev = "load"
  /\ ui' = showStatus(ui, CheckingText, arg)
  /\ last' = Event("showStatus", 0, "user", FALSE, <<>>)
  /\ UNCHANGED <<out, variant, alive, nruns, runs, page, arg>>

SpecStatus == StatusInit /\ [][ShowStatus]_vars

-----------------------------------------------------------------------------
(* The request helpers on their own: one call of postForm or extractISL,   *)
(* answered by a response drawn by Init.                                    *)

Helpers == {"postForm", "extractISL"}

AllAnswers ==
  ProcessAnswers \cup DownloadAnswers \cup TranscribeAnswers
  \cup FormalizeAnswers \cup ExtractAnswers

HelperInit ==
  PureInit("helper", [helper : Helpers, resp : AllAnswers], {InitUI})

\* The helper is called: it builds the body and starts its one fetch.
HelperCall ==
  /\ variant = "helper"
  /\ runs[1].pc = "idle"
  /\ runs' = [runs EXCEPT ![1] =
                Issue(NoRun, "pending",
                      IF arg.helper = "postForm"
                      THEN ProcessRequest(<<"u">>)
                      ELSE ExtractRequest(<<"s1">>, CaptionPath))]
  /\ last' = Event("call", 1, "user", FALSE, <<>>)
  /\ UNCHANGED <<out, variant, alive, nruns, ui, page, arg>>

\* The fetch settles with arg.resp: the helper returns or throws.
HelperSettled ==
  /\ variant = "helper"
  /\ runs[1].pc = "pending"
  /\ out' = IF arg.helper = "postForm" THEN postForm(arg.resp)
                                       ELSE extractISL(arg.resp)
  /\ runs' = [runs EXCEPT ![1] =
                End(Settle(runs[1], arg.resp, Undefined), "returned")]
  /\ last' = Settled("helper", 1, arg.resp)
  /\ UNCHANGED <<variant, alive, nruns, ui, page, arg>>

SpecPost == HelperInit /\ [][HelperCall \/ HelperSettled]_vars

-----------------------------------------------------------------------------
(* Properties *)

Run(r) == runs[r]

IsPrefix(s, t) == Len(s) <= Len(t) /\ \A i \in 1..Len(s) : s[i] = t[i]

Pipeline ==
  <<"process", "download-audio", "transcribe", "formalize", "isl-extract">>

ValidationText == IF variant = "async" THEN PasteText ELSE EnterUrlText

\* C1: a submission whose URL field is empty or holds only blanks issues no
\* request (no run starts, no run's requests change, no cleanup is sent)
\* and ends with the result panel showing the validation message and the
\* status panel hidden, whatever the page looked like before.
C1_EmptySubmitIsRejected ==
  [][ (last'.ev = "submit" /\ ~Truthy(Trim(last'.input)))
        => /\ runs' = runs
           /\ nruns' = nruns
           /\ page' = page
           /\ ui'.resultVisible
           /\ ui'.resultMsg = ValidationText
           /\ ~ui'.statusVisible ]_vars

\* A blank-only URL was submitted while a run was waiting for the backend.
C1_Witness ==
  /\ last.ev = "submit"
  /\ last.input = <<" ", " ">>
  /\ \E r \in Runs : Run(r).pc \in InFlightPcs
  /\ ui.resultVisible
  /\ ui.resultMsg = PasteText
  /\ ~ui.statusVisible

\* C2: a run whose process answer is status=success with a file path never
\* requests download-audio or transcribe; in the async orchestrator its
\* second request is formalize, carrying that file path.
C2_CaptionsGoStraightToFormalize ==
  \A r \in Runs :
    Run(r).proc = "captions" =>
      /\ \A i \in 1..Len(Run(r).eps) :
           Run(r).eps[i] \notin {"download-audio", "transcribe"}
      /\ variant = "async" =>
           /\ Len(Run(r).eps) >= 2
           /\ Run(r).eps[2] = "formalize"
           /\ Run(r).pc = "formalize" =>
                /\ Run(r).req.ep = "formalize"
                /\ Truthy(Run(r).ret)
                /\ Run(r).req.file_path = Run(r).ret

\* A captions run went process, formalize, isl-extract and is done.
C2_Witness ==
  \E r \in Runs :
    /\ variant = "async"
    /\ Run(r).proc = "captions"
    /\ Run(r).pc = "done"
    /\ Run(r).eps = <<"process", "formalize", "isl-extract">>

\* C3: a run whose process answer is status=info requests download-audio,
\* then transcribe, then formalize, in that order and each at most once;
\* transcribe only after download-audio succeeded and with the audio path
\* it returned, formalize only after transcribe succeeded and with the file
\* path it returned.
C3_InfoRunsDownloadThenTranscribe ==
  \A r \in Runs :
    Run(r).proc = "info" =>
      /\ Len(Run(r).eps) >= 2
      /\ IsPrefix(Run(r).eps, Pipeline)
      /\ \A i \in 3..Len(Run(r).eps) :
           Run(r).eps[i] \in {"transcribe", "formalize"} => Run(r).oks[i - 1]
      /\ Run(r).pc = "transcribe" =>
           /\ Run(r).req.ep = "transcribe"
           /\ Truthy(Run(r).ret) => Run(r).req.audio_path = Run(r).ret
      /\ Run(r).pc = "formalize" =>
           /\ Run(r).req.ep = "formalize"
           /\ Truthy(Run(r).ret) => Run(r).req.file_path = Run(r).ret

\* An info run of the async orchestrator has sent formalize with the
\* transcript's path after download-audio and transcribe.
C3_Witness ==
  \E r \in Runs :
    /\ variant = "async"
    /\ Run(r).proc = "info"
    /\ Run(r).pc = "formalize"
    /\ Run(r).eps = <<"process", "download-audio", "transcribe", "formalize">>
    /\ Run(r).req.file_path = TranscriptPath

\* C4: when the extraction step fails (the request is rejected, the body is
\* no JSON, the code is not 2xx, or the tables cannot be rendered), the run
\* is done, the result panel shows the success message and the vocabulary
\* grid shows the empty state.
C4_ExtractionFailureIsSoft ==
  (last.ev = "extract" /\ last.how # "ok") =>
    /\ Run(last.run).pc = "done"
    /\ ui.resultVisible
    /\ ui.resultMsg = ReadyText
    /\ ~ui.statusVisible
    /\ ui.vocabVisible
    /\ ui.vocabGrid = <<EmptyStateText>>

\* The answer held matches but its tables could not be rendered.
C4_Witness ==
  /\ last.ev = "extract"
  /\ last.how = "unrenderable"
  /\ Run(last.run).pc = "done"
  /\ ui.resultMsg = ReadyText
  /\ ui.vocabGrid = <<EmptyStateText>>

\* The call the last step settled failed: the helper threw (async), or the
\* chain was rejected or the body said "error" (promise-chained script).
LastFailed(l) ==
  /\ l.ev \in {"process", "download", "transcribe", "formalize"}
  /\ IF variant = "async" THEN l.how \in {"reject", "badjson", "http-error"}
                          ELSE l.how \in {"reject", "badjson"} \/ l.said

\* The texts a failure may put in the result panel.
FailureTexts(l) ==
  IF l.how \in {"reject", "badjson"}
  THEN {<<"Error: ">> \o NetMessage(l.how)}
  ELSE IF variant = "async"
  THEN {<<"Error: ", "boom">>, <<"Error: ", "HTTP ", "500">>}
  ELSE {<<"boom">>, <<>>}

NoRepeat(s) == \A i, j \in 1..Len(s) : s[i] = s[j] => i = j

C6_OneRunInFlight ==
  Cardinality({r \in Runs : Run(r).pc \in InFlightPcs}) <= 1

\* C7: the submit control is disabled while a run is in flight and enabled
\* again once every started run has reached done or error.
C7_SubmitDisabledExactlyWhileRunning ==
  /\ (\E r \in Runs : Run(r).pc \in InFlightPcs) => ui.submitDisabled
  /\ (nruns > 0 /\ \A r \in 1..nruns : Run(r).pc \in {"done", "error"})
       => ~ui.submitDisabled

IsName(a) == a \notin {"/", "\\"}

NoLineBreak(s) == \A i \in 1..Len(s) : s[i] # LineBreak

AllNames(s) == s # <<>> /\ \A i \in 1..Len(s) : IsName(s[i])

\* q reads <root>/<session>/<filename>: three non-empty segments.
ThreeSegments(q) ==
  \E i, j \in 1..Len(q) :
    /\ i < j
    /\ q[i] = "/"
    /\ q[j] = "/"
    /\ AllNames(SubSeq(q, 1, i - 1))
    /\ AllNames(SubSeq(q, i + 1, j - 1))
    /\ AllNames(SubSeq(q, j + 1, Len(q)))

RootOf(q) == SubSeq(q, 1, SlashFrom(q, 1) - 1)

SessionOf(q) ==
  SubSeq(q, SlashFrom(q, 1) + 1, LastSlash(q, Len(q)) - 1)

FileOf(q) == SubSeq(q, LastSlash(q, Len(q)) + 1, Len(q))

\* The link /download/<session>/<filename>, both segments percent-encoded.
DownloadHref(q) ==
  <<"/download/">> \o [i \in 1..Len(SessionOf(q)) |-> EncodeAtom(SessionOf(q)[i])]
  \o <<"/">> \o [i \in 1..Len(FileOf(q)) |-> EncodeAtom(FileOf(q)[i])]

\* The root is "temp" and the file name is at least one character, none of
\* them a line break, and ".srt", in any case.
TempSrt(q) ==
  /\ Len(RootOf(q)) = 1
  /\ RootOf(q)[1] \in TempAtoms
  /\ NoLineBreak(FileOf(q))
  /\ FileOf(q)[Len(FileOf(q))] \in SrtAtoms
  /\ FileOf(q) # <<".srt">>

PathOnly(a) == ~Truthy(a.download_url) /\ a.file_path # Undefined

MalformedPath(p) ==
  \/ ~Truthy(p)
  \/ LET q == NormalizeSlashes(p)
     IN  ~ /\ Len(q) >= 5
           /\ q[1] \in TempAtoms
           /\ q[2] = "/"
           /\ \E j \in 4..(Len(q) - 1) :
                q[j] = "/" /\ \A k \in 3..(j - 1) : q[k] # "/"

\* C9: when the formalize answer has no download_url and a missing or
\* malformed file path, the step that ends the run leaves it done, with the
\* download link hidden and the result panel showing the success message.
C9_MalformedPathStillDone ==
  [][ \A r \in Runs :
        ( /\ Run(r).pc = "extract"
          /\ runs'[r].pc # "extract"
          /\ ~Truthy(Run(r).f.download_url)
          /\ MalformedPath(Run(r).f.file_path) )
        => /\ runs'[r].pc = "done"
           /\ ~ui'.linkVisible
           /\ ui'.resultVisible
           /\ ui'.resultMsg = ReadyText
           /\ ~ui'.statusVisible ]_vars

\* A run ended with the success message and no link, after an earlier run
\* had ended.
C9_Witness ==
  /\ last.ev = "extract"
  /\ Run(last.run).pc = "done"
  /\ \E r \in Runs : r # last.run /\ Run(r).pc = "done"
  /\ ~ui.linkVisible
  /\ ui.resultVisible
  /\ ui.resultMsg = ReadyText

Clamp(p) == IF p < 0 THEN 0 ELSE IF p > 100 THEN 100 ELSE p

\* C10: after showStatus(msg, p) the progress bar's width is clamp(p, 0, 100)
\* percent, for p below 0 and above 100 too.
C10_WidthIsClamped ==
  (last.ev = "showStatus" /\ arg # NoProgress) =>
    ui.statusVisible /\ ui.width = Clamp(arg)

\* A value above 100 was shown as 100, one below 0 would be shown as 0.
C10_Witness ==
  /\ last.ev = "showStatus"
  /\ arg = 100 + ProgressMargin
  /\ ui.width = 100

\* C11: a call of postForm (or extractISL) sends exactly one request; when
\* the answer's HTTP code is not a success code the helper throws an error
\* whose message is the body's message when it has one and "HTTP <code>"
\* otherwise; when it is a success code the helper returns the parsed body
\* unchanged, whatever the body's status field says.
C11_HelperOutcome ==
  last.ev = "helper" =>
    /\ Run(1).eps \in {<<"process">>, <<"isl-extract">>}
    /\ (arg.resp.net = "ok" /\ arg.resp.code # "200") =>
         /\ out.threw
         /\ out.message = IF Truthy(arg.resp.body.message)
                          THEN arg.resp.body.message
                          ELSE <<"HTTP ", arg.resp.code>>
    /\ (arg.resp.net = "ok" /\ arg.resp.code = "200") =>
         /\ ~out.threw
         /\ out.json = arg.resp.body

\* postForm returned a 200 body whose status is "error" as it stands.
C11_Witness ==
  /\ last.ev = "helper"
  /\ arg.helper = "postForm"
  /\ arg.resp.code = "200"
  /\ arg.resp.body.status = <<"error">>
  /\ Run(1).eps = <<"process">>
  /\ ~out.threw
  /\ out.json = arg.resp.body

\* C12: when the page has been discarded, cleanup has been requested at most
\* once, and exactly once, for the page's session, when the page had
\* obtained a session id.
C12_CleanupExactlyOnce ==
  ~alive =>
    /\ Len(page.cleanups) <= 1
    /\ Truthy(page.sessionId) => page.cleanups = <<page.sessionId>>

\* C13: when the process answer is neither status=success with a file path
\* nor status=info (and is no failure of the request itself), the run ends
\* in error without a further request, the status panel is hidden and the
\* result panel shows the answer's message or the unexpected-response text.
C13_UnexpectedProcessAnswerIsError ==
  (last.ev = "process" /\ Run(last.run).proc = "other") =>
    /\ Run(last.run).pc = "error"
    /\ Run(last.run).eps = <<"process">>
    /\ ~ui.statusVisible
    /\ ui.resultVisible
    /\ ui.resultMsg \in {<<"boom">>, <<"note">>, UnexpectedText}

\* The text a missing value turns into when it is put into a form body.
MissingText == <<"undefined">>

\* C14: no request is sent with a field the preceding answer failed to
\* bring (session_id, audio_path, file_path), and no run goes on to the
\* extraction when formalize brought no file path: such a run has ended in
\* error instead.
C14_MissingFieldEndsTheRun ==
  \A r \in Runs :
    /\ Run(r).req.session_id # MissingText
    /\ Run(r).req.audio_path # MissingText
    /\ Run(r).req.file_path # MissingText
    /\ Run(r).pc = "extract" => Truthy(Run(r).f.file_path)

\* C15: every request a run sends after process (download-audio,
\* transcribe, formalize, and the extraction sent when formalize settles)
\* carries the session id that run's process answer brought, when it
\* brought one.
C15_RequestsCarryTheProcessSession ==
  [][ \A r \in Runs :
        /\ ( /\ runs'[r].pc \in {"download", "transcribe", "formalize"}
             /\ Truthy(runs'[r].psid) ) =>
             runs'[r].req.session_id = runs'[r].psid
        /\ ( /\ runs[r].pc = "formalize"
             /\ runs'[r].pc = "extract"
             /\ Truthy(runs[r].psid) ) =>
             runs'[r].req.session_id = runs[r].psid ]_vars

\* The request a run waits for at each await of the orchestrator.
AwaitedEndpoint(pc) ==
  CASE pc = "process"    -> "process"
    [] pc = "download"   -> "download-audio"
    [] pc = "transcribe" -> "transcribe"
    [] pc = "formalize"  -> "formalize"
    [] pc = "extract"    -> "isl-extract"

CaptionsRoute == <<"process", "formalize", "isl-extract">>

\* C16: a run of the async orchestrator requests its endpoints along
\* process, (download-audio, transcribe,) formalize, isl-extract, each at
\* most once and each only after the one before it succeeded; it waits for
\* the one it requested last; the extraction carries the file path the
\* formalize answer brought; a run is done only when its extraction request
\* has settled.
C16_PhasesInOrder ==
  variant = "async" =>
    \A r \in Runs :
      /\ IsPrefix(Run(r).eps, Pipeline) \/ IsPrefix(Run(r).eps, CaptionsRoute)
      /\ NoRepeat(Run(r).eps)
      /\ \A i \in 2..Len(Run(r).eps) : Run(r).oks[i - 1]
      /\ Run(r).pc \in InFlightPcs =>
           /\ Run(r).eps # <<>>
           /\ Run(r).eps[Len(Run(r).eps)] = AwaitedEndpoint(Run(r).pc)
           /\ Len(Run(r).oks) = Len(Run(r).eps) - 1
      /\ Run(r).pc = "extract" =>
           /\ Run(r).req.ep = "isl-extract"
           /\ Truthy(Run(r).ret) => Run(r).req.file_path = Run(r).ret
      /\ Run(r).pc = "done" =>
           /\ Run(r).eps \in {Pipeline, CaptionsRoute}
           /\ Len(Run(r).oks) = Len(Run(r).eps)

\* A run is waiting for the extraction of the file formalize returned,
\* after download-audio and transcribe.
C16_Witness ==
  \E r \in Runs :
    /\ variant = "async"
    /\ Run(r).pc = "extract"
    /\ Run(r).eps = Pipeline
    /\ Run(r).req.file_path = <<"TEMP", "\\", "a b", "\\", "x.SRT">>

\* C17: a run that is not waiting for any answer (every request it sent has
\* settled) has reached done or error, and the step that ended it left the
\* result panel shown: no answer leaves a run in a phase it can never
\* leave.
C17_NoRunIsStuck ==
  /\ \A r \in Runs :
       (Run(r).eps # <<>> /\ Len(Run(r).oks) = Len(Run(r).eps)) =>
         Run(r).pc \in {"done", "error"}
  /\ ( /\ last.ev \in {"process", "download", "transcribe", "formalize",
                       "extract"}
       /\ Run(last.run).pc \notin InFlightPcs ) => ui.resultVisible

\* C18: in the async orchestrator the status panel and the result panel
\* are never visible together.
C18_PanelsNeverBothVisible ==
  variant = "async" => ~(ui.statusVisible /\ ui.resultVisible)

SuccessText == IF variant = "async" THEN ReadyText ELSE CaptionsReadyText

\* C19: the download link is visible only while the result panel is
\* visible and shows the success message.
C19_LinkOnlyWithSuccess ==
  ui.linkVisible => (ui.resultVisible /\ ui.resultMsg = SuccessText)

\* The vocabulary grid and the affected-word tables show no extraction
\* result: each is hidden, empty or in its empty state.
NoVocabularyShown ==
  /\ ui.vocabVisible => ui.vocabGrid \in {<<>>, <<EmptyStateText>>}
  /\ ui.affVisible => ui.affTables = <<>>

\* C20: when the step that ended the most recent run has just been taken
\* and every run has ended, and that run ended in error before its
\* extraction or its extraction request failed, the vocabulary grid and the
\* affected-word tables show no extraction result.
C20_NoStaleVocabulary ==
  ( /\ variant = "async"
    /\ nruns > 0
    /\ last.run = nruns
    /\ \A r \in 1..nruns : Run(r).pc \in {"done", "error"}
    /\ \/ Run(nruns).pc = "error"
       \/ ~Run(nruns).oks[Len(Run(nruns).oks)] )
  => NoVocabularyShown

=============================================================================
